---- MODULE Spec2Model ----
(***************************************************************************)
(* Verification model of the Perplexity MCP proxy servers.                 *)
(*                                                                         *)
(*   src/src/server.ts     HTTP variant  (PerplexityMCPServer, "http")     *)
(*   src/src/stdio.ts      stdio variant (PerplexityMCPStdioServer,        *)
(*                         "stdio"); its processStreamingResponse is the   *)
(*                         same code as the HTTP variant's                 *)
(*   src/unnamed/part_000  reader-based chat variant ("reader"):           *)
(*                         handleStreamResponse / handlePerplexityChat     *)
(*                                                                         *)
(* Text is modelled as TLA+ strings, one character per byte (the streams   *)
(* of the model are ASCII, so TextDecoder's byte-to-character step is the  *)
(* identity on them and a chunk boundary is a character offset).           *)
(***************************************************************************)
EXTENDS Integers, Sequences, FiniteSets, TLC

(***************************************************************************)
(* String primitives of the JavaScript runtime used by the handlers.       *)
(***************************************************************************)

\* The element of a set that has one element.  Only({F(x) : x \in {e}}) is
\* F(e) with e computed once, as the runtime computes a `const` once.
Only(S) == CHOOSE r \in S : TRUE

\* The characters i..j of s (1-based, inclusive), clamped to s as
\* String.prototype.substring clamps its arguments.
Substring(s, i, j) ==
    LET lo == IF i < 1 THEN 1 ELSE i
        hi == IF j > Len(s) THEN Len(s) ELSE j
    IN  IF lo > hi THEN "" ELSE SubSeq(s, lo, hi)

\* s.charAt(i - 1): "" outside s.
CharAt(s, i) == Substring(s, i, i)

\* White space removed by String.prototype.trim (the part of it that the
\* model's alphabet contains).
IsWhiteSpace(c) == c \in {" ", "\t", "\n", "\r"}

RECURSIVE TrimStart(_)
TrimStart(s) ==
    IF Len(s) > 0 /\ IsWhiteSpace(CharAt(s, 1))
    THEN TrimStart(Substring(s, 2, Len(s)))
    ELSE s

RECURSIVE TrimEnd(_)
TrimEnd(s) ==
    IF Len(s) > 0 /\ IsWhiteSpace(CharAt(s, Len(s)))
    THEN TrimEnd(Substring(s, 1, Len(s) - 1))
    ELSE s

\* line.trim()
Trim(s) == TrimEnd(TrimStart(s))

\* s.startsWith(p)
StartsWith(s, p) == Len(s) >= Len(p) /\ Substring(s, 1, Len(p)) = p

\* s.slice(n)
Slice(s, n) == Substring(s, n + 1, Len(s))

\* The least element of a non-empty set of numbers.
Least(S) == CHOOSE k \in S : \A m \in S : k <= m

\* Index of the first "\n" of s at or after position i, 0 when there is none.
IndexOfNewline(s, i) ==
    LET hits == {k \in i..Len(s) : CharAt(s, k) = "\n"}
    IN  IF hits = {} THEN 0 ELSE Least(hits)

\* s.split("\n"): the pieces between newlines, always at least one piece;
\* the last piece is the text after the last newline ("" when s ends in one).
RECURSIVE Split(_)
Split(s) ==
    LET Cut(k) ==
            IF k = 0 THEN <<s>>
            ELSE <<Substring(s, 1, k - 1)>>
                 \o Only({Split(x) : x \in {Substring(s, k + 1, Len(s))}})
    IN  Only({Cut(x) : x \in {IndexOfNewline(s, 1)}})

(***************************************************************************)
(* JSON values.  Every value is a record [t, s, a]: t the kind, s the text *)
(* of a string or number (or the key of an object member), a the elements  *)
(* of an array, the members of an object or the value of a member.         *)
(***************************************************************************)

JUndefined == [t |-> "undefined", s |-> "", a |-> <<>>]
JNull      == [t |-> "null", s |-> "", a |-> <<>>]
JTrue      == [t |-> "true", s |-> "", a |-> <<>>]
JFalse     == [t |-> "false", s |-> "", a |-> <<>>]
JStr(s)    == [t |-> "str", s |-> s, a |-> <<>>]
JNum(s)    == [t |-> "num", s |-> s, a |-> <<>>]
JArr(a)    == [t |-> "arr", s |-> "", a |-> a]
JMem(k, v) == [t |-> "mem", s |-> k, a |-> <<v>>]
JObj(ms)   == [t |-> "obj", s |-> "", a |-> ms]

IsDigit(c) == c \in {"0", "1", "2", "3", "4", "5", "6", "7", "8", "9"}

\* JSON's insignificant white space.
RECURSIVE SkipWS(_, _)
SkipWS(s, i) ==
    IF i <= Len(s) /\ IsWhiteSpace(CharAt(s, i)) THEN SkipWS(s, i + 1) ELSE i

\* A parse step's outcome: ok, the value, and the index after it.
POk(v, i) == [ok |-> TRUE, v |-> v, i |-> i]
PFail     == [ok |-> FALSE, v |-> JUndefined, i |-> 0]

\* Index of the closing quote of the string whose first character is at i;
\* 0 when the string is unterminated or holds a character this model's JSON
\* subset does not admit raw (a control character) or an escape.
RECURSIVE StringEnd(_, _)
StringEnd(s, i) ==
    LET c == CharAt(s, i)
    IN  IF i > Len(s) THEN 0
        ELSE IF c = "\"" THEN i
        ELSE IF c \in {"\\", "\n", "\r", "\t"} THEN 0
        ELSE StringEnd(s, i + 1)

RECURSIVE DigitsEnd(_, _)
DigitsEnd(s, i) ==
    IF i <= Len(s) /\ IsDigit(CharAt(s, i)) THEN DigitsEnd(s, i + 1) ELSE i

RECURSIVE ParseValue(_, _)
RECURSIVE ParseElements(_, _, _)
RECURSIVE ParseMembers(_, _, _)

\* value ::= object | array | string | number | true | false | null
\* (numbers: non-negative integers without leading zeros; strings: no
\* escapes), with white space around it skipped by the callers.
ParseValue(s, i0) ==
    LET At(i) ==
            LET c == CharAt(s, i)
            IN  IF i > Len(s) THEN PFail
                ELSE IF c = "{" THEN
                    LET j == SkipWS(s, i + 1)
                    IN  IF CharAt(s, j) = "}" THEN POk(JObj(<<>>), j + 1)
                        ELSE ParseMembers(s, j, <<>>)
                ELSE IF c = "[" THEN
                    LET j == SkipWS(s, i + 1)
                    IN  IF CharAt(s, j) = "]" THEN POk(JArr(<<>>), j + 1)
                        ELSE ParseElements(s, j, <<>>)
                ELSE IF c = "\"" THEN
                    LET e == StringEnd(s, i + 1)
                    IN  IF e = 0 THEN PFail ELSE POk(JStr(Substring(s, i + 1, e - 1)), e + 1)
                ELSE IF IsDigit(c) THEN
                    LET e == DigitsEnd(s, i)
                    IN  IF c = "0" /\ e > i + 1 THEN PFail
                        ELSE POk(JNum(Substring(s, i, e - 1)), e)
                ELSE IF Substring(s, i, i + 3) = "true" THEN POk(JTrue, i + 4)
                ELSE IF Substring(s, i, i + 4) = "false" THEN POk(JFalse, i + 5)
                ELSE IF Substring(s, i, i + 3) = "null" THEN POk(JNull, i + 4)
                ELSE PFail
    IN  Only({At(x) : x \in {SkipWS(s, i0)}})

\* elements ::= value ("," value)* "]"
ParseElements(s, i, acc) ==
    LET Element(r) ==
            IF ~r.ok THEN PFail
            ELSE LET j == SkipWS(s, r.i)
                     c == CharAt(s, j)
                     More(elements) ==
                        IF c = "]" THEN POk(JArr(elements), j + 1)
                        ELSE IF c = "," THEN ParseElements(s, j + 1, elements)
                        ELSE PFail
                 IN  Only({More(x) : x \in {Append(acc, r.v)}})
    IN  Only({Element(x) : x \in {ParseValue(s, i)}})

\* members ::= string ":" value ("," string ":" value)* "}"
ParseMembers(s, i0, acc) ==
    LET At(i) ==
            IF CharAt(s, i) # "\"" THEN PFail
            ELSE LET e == StringEnd(s, i + 1)
                 IN  IF e = 0 THEN PFail
                     ELSE LET k == Substring(s, i + 1, e - 1)
                              j == SkipWS(s, e + 1)
                              Member(r) ==
                                IF ~r.ok THEN PFail
                                ELSE LET m == SkipWS(s, r.i)
                                         c == CharAt(s, m)
                                         More(ms) ==
                                            IF c = "}" THEN POk(JObj(ms), m + 1)
                                            ELSE IF c = "," THEN ParseMembers(s, m + 1, ms)
                                            ELSE PFail
                                     IN  Only({More(x) : x \in {Append(acc, JMem(k, r.v))}})
                          IN  IF CharAt(s, j) # ":" THEN PFail
                              ELSE Only({Member(x) : x \in {ParseValue(s, j + 1)}})
    IN  Only({At(x) : x \in {SkipWS(s, i0)}})

\* JSON.parse(data): ok is FALSE where JSON.parse throws a SyntaxError.
JSONParse(data) ==
    LET Whole(r) == IF r.ok /\ SkipWS(data, r.i) = Len(data) + 1 THEN r ELSE PFail
    IN  Only({Whole(x) : x \in {ParseValue(data, 1)}})

(***************************************************************************)
(* JavaScript value semantics used by the handlers on parsed payloads.     *)
(***************************************************************************)

\* v.k for a non-null v: the value of the last member named k of an object,
\* undefined for a missing member and for a value that is no object.
RECURSIVE LastMember(_, _, _)
LastMember(ms, k, i) ==
    IF i = 0 THEN JUndefined
    ELSE IF ms[i].s = k THEN ms[i].a[1]
    ELSE LastMember(ms, k, i - 1)

Get(v, k) == IF v.t = "obj" THEN LastMember(v.a, k, Len(v.a)) ELSE JUndefined

IsNullish(v) == v.t \in {"null", "undefined"}

\* v?.k
OptGet(v, k) == IF IsNullish(v) THEN JUndefined ELSE Get(v, k)

\* v?.[0]: the first element of an array, the first character of a string,
\* the member "0" of an object.
OptFirst(v) ==
    IF IsNullish(v) THEN JUndefined
    ELSE IF v.t = "arr" THEN (IF Len(v.a) > 0 THEN v.a[1] ELSE JUndefined)
    ELSE IF v.t = "str" THEN (IF Len(v.s) > 0 THEN JStr(CharAt(v.s, 1)) ELSE JUndefined)
    ELSE Get(v, "0")

\* Truthiness of a value in a condition.
Truthy(v) ==
    CASE v.t \in {"undefined", "null", "false"} -> FALSE
      [] v.t = "str" -> v.s # ""
      [] v.t = "num" -> v.s # "0"
      [] OTHER -> TRUE

\* A faulty ||: the right operand whatever the left one is.
OrLast(a, b) == b

\* a || b
Or(a, b) == IF Truthy(a) THEN a ELSE b

\* Array.isArray(v)
IsArray(v) == v.t = "arr"

\* String(v), as applied by += on a string and by a template literal.
RECURSIVE ToStr(_)
RECURSIVE JoinComma(_, _)
ToStr(v) ==
    CASE v.t = "str" -> v.s
      [] v.t = "num" -> v.s
      [] v.t = "arr" -> JoinComma(v.a, 1)
      [] v.t = "obj" -> "[object Object]"
      [] OTHER -> v.t

\* Array.prototype.join: null and undefined elements give "".
JoinComma(a, i) ==
    IF i > Len(a) THEN ""
    ELSE (IF IsNullish(a[i]) THEN "" ELSE ToStr(a[i]))
         \o (IF i < Len(a) THEN "," ELSE "")
         \o JoinComma(a, i + 1)

\* String(n) for a natural number n.
RECURSIVE NumStr(_)
NumStr(n) ==
    IF n < 10 THEN CharAt("0123456789", n + 1)
    ELSE NumStr(n \div 10) \o CharAt("0123456789", (n % 10) + 1)

(***************************************************************************)
(* The state of one tool call's stream processing, as a record:            *)
(*   buffer, result, citations, images   locals of processStreamingResponse*)
(*   result, citations, lastChunk        accumulatedContent, searchResults *)
(*                                       and lastChunk of                  *)
(*                                       handleStreamResponse              *)
(* and three history fields that the code does not have:                   *)
(*   trace     one entry per line handled while processing one chunk: the  *)
(*             line, the path taken, the accumulators before and after     *)
(*   events    the payload texts parsed and applied so far, in order       *)
(*   doneSnap  <<accumulators>> as they were when the first [DONE] line    *)
(*             was handled, <<>> before that                               *)
(***************************************************************************)

Snap(s) == [result |-> s.result, citations |-> s.citations, images |-> s.images]

\* History only: the line just handled, the path it took, the payload parsed
\* from it (JUndefined when none was) and its effect; events are the payloads
\* applied so far.
Logged(s, line, path, parsed, s2) ==
    [s2 EXCEPT
        !.trace = Append(s.trace,
                    [line |-> line, path |-> path, parsed |-> parsed,
                     before |-> Snap(s), after |-> Snap(s2)]),
        !.events = IF path = "applied" THEN Append(s.events, parsed) ELSE s.events,
        !.doneSnap = IF path \in {"done", "skipped_done"} /\ s.doneSnap = <<>>
                     THEN <<Snap(s)>> ELSE s.doneSnap]

\* parsed.choices?.[0]?.delta?.content
DeltaContent(parsed) ==
    OptGet(OptGet(OptFirst(Get(parsed, "choices")), "delta"), "content")

\* A faulty accumulator, for checking that the properties below depend on
\* the accumulator: it overwrites the text instead of appending to it.
ApplyParsedOverwriting(s, parsed) ==
    LET content == DeltaContent(parsed)
    IN  [s EXCEPT !.result = IF Truthy(content) THEN ToStr(content) ELSE s.result]

\* The body of the try block of processStreamingResponse after JSON.parse
\* returned a non-null value.
ApplyParsed(s, parsed) ==
    LET content == DeltaContent(parsed)
        cits == Get(parsed, "citations")
        imgs == Get(parsed, "images")
    IN  [s EXCEPT
            !.result = IF Truthy(content) THEN s.result \o ToStr(content) ELSE s.result,
            !.citations = IF Truthy(cits) /\ IsArray(cits) THEN cits ELSE s.citations,
            !.images = IF Truthy(imgs) /\ IsArray(imgs) THEN imgs ELSE s.images]

\* A faulty catch block: the text accumulated so far is lost.
CatchResetting(s) == [s EXCEPT !.result = ""]

\* The catch block of the line loop (server.ts 227-230, stdio.ts 215-218,
\* part_000 202-204): the line is skipped, nothing changes.
CatchParseError(s) == s

\* One iteration of `for (const line of lines)` in processStreamingResponse.
ProcessLine(s, line) ==
    LET Parsed(p) ==
            IF ~p.ok THEN Logged(s, line, "parse_failed", JUndefined, CatchParseError(s))
            \* parsed.choices on null: a TypeError, caught like a SyntaxError
            ELSE IF p.v.t = "null" THEN Logged(s, line, "threw", p.v, CatchParseError(s))
            ELSE Logged(s, line, "applied", p.v, ApplyParsed(s, p.v))
        Data(data) == Only({Parsed(x) : x \in {JSONParse(data)}})
        Trimmed(trimmedLine) ==
            IF trimmedLine = "" THEN Logged(s, line, "skipped", JUndefined, s)
            ELSE IF trimmedLine = "data: [DONE]"
            THEN Logged(s, line, "skipped_done", JUndefined, s)
            ELSE IF StartsWith(trimmedLine, "data: ")
            THEN Only({Data(x) : x \in {Trim(Slice(trimmedLine, 6))}})
            ELSE Logged(s, line, "ignored", JUndefined, s)
    IN  Only({Trimmed(x) : x \in {Trim(line)}})

\* The body of the try block of handleStreamResponse after JSON.parse returned.
ApplyParsedReader(s, parsed) ==
    LET content == DeltaContent(parsed)
        sr == Get(parsed, "search_results")
    IN  [s EXCEPT
            !.lastChunk = parsed,
            !.result = IF Truthy(content) THEN s.result \o ToStr(content) ELSE s.result,
            !.citations = IF Truthy(sr) THEN sr ELSE s.citations]

\* One iteration of `for (const line of lines)` in handleStreamResponse.
ProcessLineReader(s, line) ==
    LET Parsed(p) ==
            IF ~p.ok THEN Logged(s, line, "parse_failed", JUndefined, CatchParseError(s))
            \* lastChunk = parsed, then parsed.choices throws on null
            ELSE IF p.v.t = "null"
            THEN Logged(s, line, "threw", p.v,
                        CatchParseError([s EXCEPT !.lastChunk = JNull]))
            ELSE Logged(s, line, "applied", p.v, ApplyParsedReader(s, p.v))
        Data(data) ==
            IF data = "[DONE]" THEN Logged(s, line, "done", JUndefined, s)
            ELSE Only({Parsed(x) : x \in {JSONParse(data)}})
    IN  IF StartsWith(line, "data: ") THEN Only({Data(x) : x \in {Slice(line, 6)}})
        ELSE Logged(s, line, "ignored", JUndefined, s)

\* `for (const line of lines)`: the lines are handled in order, each in the
\* state the one before it left.
RECURSIVE ProcessLines(_, _, _, _)
ProcessLines(v, s, lines, i) ==
    LET Line(line) == IF v = "reader" THEN ProcessLineReader(s, line)
                                       ELSE ProcessLine(s, line)
        Rest(s2) == ProcessLines(v, s2, lines, i + 1)
    IN  IF i > Len(lines) THEN s
        ELSE Only({Rest(s1) : s1 \in {Only({Line(x) : x \in {lines[i]}})}})

\* A faulty buffer: the newline before the unfinished piece is carried over
\* with it.
KeepLastAndNewline(lines) == IF Len(lines) > 1 THEN "\n" \o lines[Len(lines)]
                                               ELSE lines[Len(lines)]

\* A faulty buffer: the unfinished piece is not carried over.
DropLast(lines) == ""

\* What the carry-over buffer becomes: lines.pop() || "".
KeepLast(lines) == lines[Len(lines)]

\* One iteration of `for await (const chunk of response.body)`:
\* buffer += chunk; split; keep the last piece; handle the others.
ProcessChunk(s, chunk) ==
    LET Lines(lines) ==
            LET Loop(s1) == ProcessLines("http", s1, SubSeq(lines, 1, Len(lines) - 1), 1)
            IN  Only({Loop(x) :
                        x \in {[s EXCEPT !.buffer = KeepLast(lines), !.trace = <<>>]}})
    IN  Only({Lines(x) : x \in {Split(s.buffer \o chunk)}})

\* One iteration of the `while (true)` loop of handleStreamResponse after a
\* read that was not done: chunk.split("\n"), every piece handled.
ProcessChunkReader(s, chunk) ==
    LET Lines(lines) == ProcessLines("reader", [s EXCEPT !.trace = <<>>], lines, 1)
    IN  Only({Lines(x) : x \in {Split(chunk)}})

\* A faulty start of a call: the text of an earlier call is still there.
InitialStateStale(v) ==
    [buffer |-> "", result |-> "A",
     citations |-> IF v = "reader" THEN JNull ELSE JArr(<<>>),
     images |-> JArr(<<>>), lastChunk |-> JNull,
     trace |-> <<>>, events |-> <<>>, doneSnap |-> <<>>]

\* The state at the start of processStreamingResponse (server.ts 184-188,
\* stdio.ts 172-176) and of handleStreamResponse (part_000 170-174).
InitialState(v) ==
    [buffer |-> "", result |-> "",
     citations |-> IF v = "reader" THEN JNull ELSE JArr(<<>>),
     images |-> JArr(<<>>), lastChunk |-> JNull,
     trace |-> <<>>, events |-> <<>>, doneSnap |-> <<>>]

Step(v, s, chunk) ==
    IF v = "reader" THEN ProcessChunkReader(s, chunk) ELSE ProcessChunk(s, chunk)

(***************************************************************************)
(* Formatting of the final text.                                           *)
(***************************************************************************)

\* A faulty citation callback: the line has no number.
CitationLineUnnumbered(citation, n) ==
    IF citation.t = "str" THEN citation.s \o "\n"
    ELSE IF citation.t \in {"obj", "arr"} THEN "[#](#)\n"
    ELSE ""

\* Faulty image callbacks: the first numbers by the next position, the
\* second looks at the url field only.
ImageLineOffByOne(image, n) ==
    IF image.t = "str"
    THEN NumStr(n + 1) \o ". ![Image " \o NumStr(n + 1) \o "](" \o image.s \o ")\n"
    ELSE ""

ImageLineUrlOnly(image, n) ==
    IF image.t = "str"
    THEN NumStr(n) \o ". ![Image " \o NumStr(n) \o "](" \o image.s \o ")\n"
    ELSE IF image.t = "obj" /\ Truthy(Get(image, "url"))
    THEN NumStr(n) \o ". [Image " \o NumStr(n) \o "](" \o ToStr(Get(image, "url")) \o ")\n"
    ELSE ""

\* One callback of citations.forEach; n is index + 1.
CitationLine(citation, n) ==
    IF citation.t = "str" THEN NumStr(n) \o ". " \o citation.s \o "\n"
    ELSE IF citation.t \in {"obj", "arr"} THEN
        LET url == Or(Or(Get(citation, "url"), Get(citation, "link")), JStr("#"))
            title == Or(Or(Or(Get(citation, "title"), Get(citation, "name")),
                           Get(citation, "text")), url)
        IN  NumStr(n) \o ". [" \o ToStr(title) \o "](" \o ToStr(url) \o ")\n"
    ELSE ""

\* One callback of images.forEach; n is index + 1.
ImageLine(image, n) ==
    IF image.t = "str"
    THEN NumStr(n) \o ". ![Image " \o NumStr(n) \o "](" \o image.s \o ")\n"
    ELSE IF image.t \in {"obj", "arr"} THEN
        LET url == Or(Or(Or(Get(image, "image_url"), Get(image, "url")),
                         Get(image, "src")), Get(image, "link"))
            title == Or(Get(image, "title"), JStr("Image " \o NumStr(n)))
        IN  IF Truthy(url)
            THEN NumStr(n) \o ". [" \o ToStr(title) \o "](" \o ToStr(url) \o ")\n"
            ELSE ""
    ELSE ""

RECURSIVE CitationLines(_, _)
CitationLines(a, i) ==
    IF i > Len(a) THEN "" ELSE CitationLine(a[i], i) \o CitationLines(a, i + 1)

RECURSIVE ImageLines(_, _)
ImageLines(a, i) ==
    IF i > Len(a) THEN "" ELSE ImageLine(a[i], i) \o ImageLines(a, i + 1)

\* A faulty formatter: the images section comes first.
FormatImagesFirst(result, citations, images) ==
    result
    \o (IF Len(images.a) > 0 THEN "\n\n**Related Images:**\n" ELSE "")
    \o (IF Len(citations.a) > 0 THEN "\n\n**Sources:**\n" ELSE "")

\* The tail of processStreamingResponse: the text, then the Sources section,
\* then the Related Images section.
Format(result, citations, images) ==
    result
    \o (IF Len(citations.a) > 0
        THEN "\n\n**Sources:**\n" \o CitationLines(citations.a, 1) ELSE "")
    \o (IF Len(images.a) > 0
        THEN "\n\n**Related Images:**\n" \o ImageLines(images.a, 1) ELSE "")

\* Date.now() at the end of the stream: the clock is not modelled, every
\* call reads this one value.
DateNow == JNum("1762232400000")

\* A faulty synthesis: the last payload is not looked at.
SynthResponseDefaults(s) ==
    [id |-> JStr("unknown"), model |-> JStr("sonar-pro"), created |-> DateNow,
     finish_reason |-> JStr("stop"), content |-> s.result,
     usage |-> JObj(<<JMem("prompt_tokens", JNum("0")),
                      JMem("completion_tokens", JNum("0")),
                      JMem("total_tokens", JNum("0"))>>),
     search_results |-> s.citations]

\* The response object handleStreamResponse synthesizes at the end of the
\* stream.
SynthResponse(s) ==
    [id |-> Or(OptGet(s.lastChunk, "id"), JStr("unknown")),
     model |-> Or(OptGet(s.lastChunk, "model"), JStr("sonar-pro")),
     created |-> Or(OptGet(s.lastChunk, "created"), DateNow),
     finish_reason |->
        Or(OptGet(OptFirst(OptGet(s.lastChunk, "choices")), "finish_reason"), JStr("stop")),
     content |-> s.result,
     usage |-> Or(OptGet(s.lastChunk, "usage"),
                  JObj(<<JMem("prompt_tokens", JNum("0")),
                         JMem("completion_tokens", JNum("0")),
                         JMem("total_tokens", JNum("0"))>>)),
     search_results |-> s.citations]

\* One callback of response.search_results.forEach.
SearchResultLine(r, n) ==
    NumStr(n) \o ". [" \o ToStr(Get(r, "title")) \o "](" \o ToStr(Get(r, "url")) \o ")"
    \o (IF Truthy(Get(r, "date")) THEN " (" \o ToStr(Get(r, "date")) \o ")" ELSE "")
    \o "\n"

RECURSIVE SearchResultLines(_, _)
SearchResultLines(a, i) ==
    IF i > Len(a) THEN "" ELSE SearchResultLine(a[i], i) \o SearchResultLines(a, i + 1)

\* handlePerplexityChat after callChatAPI returned `response`: the tool
\* result, or the error result of the handler's catch when formatting throws
\* (forEach on a non-array, a property of a null element).
ChatResult(response) ==
    LET content == IF response.content # "" THEN response.content
                   ELSE "No response generated"
        sr == response.search_results
    IN  IF sr.t = "arr" /\ Len(sr.a) > 0 THEN
            IF \E i \in 1..Len(sr.a) : IsNullish(sr.a[i])
            THEN [isError |-> TRUE,
                  text |-> "Error executing perplexity_search_chat: "
                           \o "Cannot read properties of null"]
            ELSE [isError |-> FALSE,
                  text |-> content \o "\n\n**Sources:**\n" \o SearchResultLines(sr.a, 1)]
        ELSE IF sr.t = "str" /\ sr.s # ""
        THEN [isError |-> TRUE,
              text |-> "Error executing perplexity_search_chat: "
                       \o "response.search_results.forEach is not a function"]
        ELSE [isError |-> FALSE, text |-> content]

\* The result a tool call returns when its stream ended normally.
ToolResult(v, s) ==
    IF v = "reader" THEN ChatResult(SynthResponse(s))
    ELSE [isError |-> FALSE, text |-> Format(s.result, s.citations, s.images)]

\* The result when reading the stream threw `message`: the catch of
\* streamPerplexityResponse, or of the reader variant's tool handler.
ReadErrorResult(v, message) ==
    [isError |-> TRUE,
     text |-> IF v = "reader"
              THEN "Error executing perplexity_search_chat: " \o message
              ELSE "Error: " \o message]

\* A faulty test of the status: every response is taken as a success.
ResponseAlwaysOk(status) == TRUE

\* response.ok: the status is in the range 200-299.
ResponseOk(status) == status >= 200 /\ status <= 299

\* The result of a tool call whose upstream response is not ok: the Error
\* thrown after `await response.text()`, as the catch of
\* streamPerplexityResponse (or of the reader variant's handler) renders it.
HttpErrorResult(v, status, errorText) ==
    [isError |-> TRUE,
     text |-> IF v = "reader"
              THEN "Error executing perplexity_search_chat: Perplexity Chat API error ("
                   \o NumStr(status) \o "): " \o errorText
              ELSE "Error: Perplexity API error: " \o NumStr(status) \o " - " \o errorText]

\* The result of a tool call whose ok response has no body: the Error thrown
\* by streamPerplexityResponse; in the reader variant callChatAPI falls
\* through to response.json(), which rejects on the empty body.
NoBodyResult(v) ==
    [isError |-> TRUE,
     text |-> IF v = "reader"
              THEN "Error executing perplexity_search_chat: Unexpected end of JSON input"
              ELSE "Error: No response body received from Perplexity API"]

\* A faulty finally block: the reader lock is kept.
FinallySkipped(locked) == locked

\* finally { reader.releaseLock(); } of handleStreamResponse.
Finally(locked) == FALSE

(***************************************************************************)
(* API key handling.                                                       *)
(***************************************************************************)

\* A key that is not there: null, undefined and "" are all falsy.
NoKey == ""

Lower(c) ==
    CASE c = "B" -> "b" [] c = "E" -> "e" [] c = "A" -> "a" [] c = "R" -> "r"
      [] OTHER -> c

RECURSIVE LowerAll(_)
LowerAll(s) ==
    IF s = "" THEN "" ELSE Lower(CharAt(s, 1)) \o LowerAll(Substring(s, 2, Len(s)))

\* authHeader.match(/^Bearer\s+(.+)$/i): match[1], or NoKey when the header
\* does not match.  \s+ is greedy and gives back one character when nothing
\* else is left for (.+).
BearerToken(authHeader) ==
    IF LowerAll(Substring(authHeader, 1, 6)) # "bearer" THEN NoKey
    ELSE LET rest == Substring(authHeader, 7, Len(authHeader))
             token == TrimStart(rest)
             spaces == Len(rest) - Len(token)
         IN  IF spaces = 0 THEN NoKey
             ELSE IF token # "" THEN token
             ELSE IF spaces >= 2 THEN CharAt(rest, Len(rest))
             ELSE NoKey

\* The middleware of app.all("/mcp") before transport.handleRequest: what
\* currentApiKey becomes for a request with this Authorization header
\* ("" for a request without one).
KeyAfterArrival(current, authHeader) ==
    IF authHeader # ""
    THEN (IF BearerToken(authHeader) # NoKey THEN BearerToken(authHeader) ELSE current)
    ELSE NoKey

\* A faulty finally block: the key of the request stays.
KeyAfterRequestKept(current) == current

\* finally { this.currentApiKey = null; } of app.all("/mcp").
KeyAfterRequest(current) == NoKey

\* The key the HTTP variant's tool handler ends up with.
ResolveKey(env, current) == IF current # NoKey THEN current ELSE env

\* SearchQuerySchema.safeParse(args).success
ArgsValid(args) == args.t = "obj" /\ Get(args, "query").t = "str"

\* A faulty handler: the tool name is not looked at.
HandleToolCallAnyName(v, name, args, env, current) ==
    IF ~(args.t = "obj" /\ Get(args, "query").t = "str")
    THEN [kind |-> "thrown", key |-> NoKey, text |-> "Invalid arguments: "]
    ELSE [kind |-> "upstream", key |-> "pplx-env", text |-> ""]

\* The CallToolRequestSchema handler of the HTTP and stdio variants up to the
\* call of streamPerplexityResponse: what it does with the request.
\*   thrown    the handler throws (the message is in text)
\*   upstream  streamPerplexityResponse is called with apiKey = key
HandleToolCall(v, name, args, env, current) ==
    LET apiKey == IF v = "http" THEN ResolveKey(env, current) ELSE env
    IN  IF name # "perplexity_search"
        THEN [kind |-> "thrown", key |-> NoKey, text |-> "Unknown tool: " \o name]
        ELSE IF ~ArgsValid(args)
        THEN [kind |-> "thrown", key |-> NoKey, text |-> "Invalid arguments: "]
        ELSE IF apiKey = NoKey
        THEN [kind |-> "thrown", key |-> NoKey,
              text |-> IF v = "http"
                       THEN "PERPLEXITY_API_KEY is required. Provide it via Authorization header (Bearer token) or PERPLEXITY_API_KEY environment variable."
                       ELSE "PERPLEXITY_API_KEY environment variable is required"]
        ELSE [kind |-> "upstream", key |-> apiKey, text |-> ""]

\* The CallToolRequestSchema handler of the reader variant up to the fetch of
\* callChatAPI: an unknown tool is caught and returned as an error result;
\* the key is the module constant read at startup.
HandleToolCallReader(name, args, env) ==
    IF name # "perplexity_search_chat"
    THEN [kind |-> "error_result", key |-> NoKey,
          text |-> "Error executing " \o name \o ": Unknown tool: " \o name]
    ELSE IF IsNullish(args)
    THEN [kind |-> "error_result", key |-> NoKey,
          text |-> "Error executing " \o name \o ": Cannot read properties of undefined"]
    ELSE [kind |-> "upstream", key |-> env, text |-> ""]

\* Module start: the reader variant exits when the environment has no key
\* (part_000 18-24); the other two construct the server and run.
AfterStartup(v, env) == IF v = "reader" /\ env = NoKey THEN "exited" ELSE "running"

(***************************************************************************)
(* Inputs of the model.                                                    *)
(***************************************************************************)

\* A read delivers at most MaxChunk characters, or everything up to the end
\* of the line being read, or the rest of the stream.
MaxChunk == 2

\* /mcp requests or tool calls in flight in one run.
MaxRequests == 2

Variants == {"http", "stdio", "reader"}

\* A delta event's data line.
Delta(c) == "data: {\"choices\":[{\"delta\":{\"content\":\"" \o c \o "\"}}]}"

Done == "data: [DONE]"

\* Response bodies the upstream may send.
\* The canonical transcript: three deltas, then the sentinel.
THello == Delta("Hel") \o "\n\n" \o Delta("lo, ") \o "\n\n" \o Delta(" world!") \o "\n\n"
          \o Done \o "\n\n"

\* A delta, then a final chunk that carries the metadata, then the sentinel.
TFinal == Delta("A") \o "\n\n"
          \o "data: {\"id\":\"r1\",\"choices\":[{\"delta\":{\"content\":\"B\"},\"finish_reason\":\"stop\"}],"
          \o "\"citations\":[\"u1\",{\"url\":\"u2\"}],\"images\":[{\"image_url\":\"i1\"}],"
          \o "\"search_results\":[{\"title\":\"T\",\"url\":\"u1\"}]}\n\n"
          \o Done \o "\n\n"

\* Metadata carried twice, then a payload that carries none, null or empty.
TMeta == "data: {\"citations\":[\"u1\",\"u2\"],\"images\":[\"i1\"],\"search_results\":[{\"url\":\"u1\"},{\"url\":\"u2\"}]}\n\n"
         \o "data: {\"citations\":[\"u3\"],\"search_results\":[{\"url\":\"u3\"}]}\n\n"
         \o Delta("A") \o "\n\n"
         \o "data: {\"citations\":null,\"images\":[],\"search_results\":null}\n\n"

\* Metadata, then a payload whose metadata fields are not arrays.
TNonArray == "data: {\"citations\":[\"u1\"],\"images\":[\"i1\"],\"search_results\":[{\"url\":\"u1\"}]}\n\n"
             \o "data: {\"citations\":\"u2\",\"images\":{\"url\":\"i2\"},\"search_results\":\"u2\"}\n\n"

\* Malformed payloads among well-formed ones.
TBad == Delta("A") \o "\n\n" \o "data: {\"choices\":[{\"delta\":\n\n"
        \o "data: {\"citations\":[\"u1\"],\"search_results\":[{\"url\":\"u1\"}]}\n\n"
        \o "data: nul\n\n" \o Delta("B") \o "\n\n"

\* Events after the sentinel.
TAfterDone == Delta("A") \o "\n\n" \o Done \o "\n\n"
              \o "data: {\"choices\":[{\"delta\":{\"content\":\"B\"}}],\"citations\":[\"u1\"],"
              \o "\"images\":[\"i1\"],\"search_results\":[{\"url\":\"u1\"}]}\n\n"

\* The last data line is complete but the stream ends without a newline.
TNoNewline == Delta("A") \o "\n\n" \o Delta("B")

\* CRLF line ends, an event: line, a comment, indentation, payloads that are
\* not objects.
TMixed == "event: message\r\n" \o Delta("A") \o "\r\n\r\n" \o ": ping\n"
          \o "  " \o Delta("B") \o "\n" \o "data: null\n" \o "data: 7\n" \o "data:\n"
          \o Done \o "\r\n\r\n"

\* Two payloads with summary fields: the second one has another id, a
\* created and a finish_reason, and lacks the model and usage of the first.
TSummary == "data: {\"id\":\"r1\",\"model\":\"m1\",\"usage\":{\"total_tokens\":3},"
            \o "\"choices\":[{\"delta\":{\"content\":\"A\"},\"finish_reason\":null}]}\n\n"
            \o "data: {\"id\":\"r2\",\"created\":6,"
            \o "\"choices\":[{\"delta\":{\"content\":\"B\"},\"finish_reason\":\"length\"}]}\n\n"

\* A record with two data lines, which joined with a newline are one JSON
\* payload, then a record with one.
TMulti == "data: {\"choices\":[{\"delta\":\n" \o "data: {\"content\":\"A\"}}]}\n\n"
          \o Delta("B") \o "\n\n"

\* Lines that end with a bare carriage return.
TBareCR == Delta("A") \o "\r\r" \o Done \o "\r\r"

\* A blank line, a malformed payload, a line that is not a data line, and a
\* delta.
TLines == "\n" \o "data: {\n" \o "event: x\n" \o Delta("A") \o "\n"

\* Bodies of the calls whose end is looked at: a delta and the sentinel, the
\* sentinel alone, and the mix of lines.
LiveBodies == {Delta("A") \o "\n\n" \o Done \o "\n\n", Done \o "\n", TLines}

Transcripts == {THello, TFinal, TMeta, TNonArray, TBad, TAfterDone, TNoNewline, TMixed,
                TSummary, TMulti, TBareCR}

\* Bodies of responses that are not ok; the last one is shaped like a stream.
ErrorBodies == {"", "Unauthorized", "{\"error\":{\"code\":429}}", Delta("X") \o "\n\n"}

ErrorStatuses == {304, 401, 500}

\* The responses the upstream may give: status, body text, and whether
\* response.body is there at all.
Responses ==
    {[status |-> 200, body |-> b, hasBody |-> TRUE] : b \in Transcripts}
    \cup {[status |-> 299, body |-> TNoNewline, hasBody |-> TRUE],
          [status |-> 200, body |-> "", hasBody |-> FALSE]}
    \cup {[status |-> s, body |-> b, hasBody |-> TRUE] : s \in ErrorStatuses, b \in ErrorBodies}

\* The responses of the calls whose end is looked at: those bodies, an
\* upstream error and a response without a body.
LiveResponses ==
    {[status |-> 200, body |-> b, hasBody |-> TRUE] : b \in LiveBodies}
    \cup {[status |-> 500, body |-> "Oops", hasBody |-> TRUE],
          [status |-> 200, body |-> "", hasBody |-> FALSE]}

\* Bodies and responses of the tool calls that run side by side: a delta, a
\* malformed payload and the sentinel, a payload with text and metadata, and
\* an upstream error.
CallBodies ==
    {Delta("A") \o "\n" \o "data: {\n" \o Done \o "\n",
     "data: {\"choices\":[{\"delta\":{\"content\":\"B\"}}],\"citations\":[\"u1\"],"
     \o "\"images\":[\"i1\"],\"search_results\":[{\"title\":\"T\",\"url\":\"u1\"}]}\n"}

CallResponses ==
    {[status |-> 200, body |-> b, hasBody |-> TRUE] : b \in CallBodies}
    \cup {[status |-> 500, body |-> "Oops", hasBody |-> TRUE],
          [status |-> 200, body |-> "", hasBody |-> FALSE]}

\* The lists the formatter is given have at most this many items.
MaxCitations == 2
MaxImages == 3

\* Sequences over S of length at most n.
Seqs(S, n) == UNION {[1..k -> S] : k \in 0..n}

\* Items of a citations array: strings, objects with some of the fields the
\* formatter looks at (some of them empty), and items that are neither.
CitationItems ==
    {JStr("https://a.com"),
     JObj(<<JMem("url", JStr("https://b.com"))>>),
     JObj(<<JMem("link", JStr("https://l.com")), JMem("name", JStr("N"))>>),
     JObj(<<JMem("url", JStr("")), JMem("link", JStr("https://l.com")),
            JMem("title", JStr("")), JMem("text", JStr("X"))>>),
     JObj(<<JMem("title", JStr("T")), JMem("name", JStr("N")), JMem("text", JStr("X")),
            JMem("url", JStr("https://b.com")), JMem("link", JStr("https://l.com"))>>),
     JObj(<<JMem("title", JNull), JMem("url", JStr("https://b.com"))>>),
     JObj(<<>>),
     JNull,
     JNum("7")}

\* Items of an images array.
ImageItems ==
    {JStr("u"),
     JObj(<<JMem("image_url", JStr("http://x/i.png")), JMem("title", JStr("Cat"))>>),
     JObj(<<JMem("title", JStr("NoURL"))>>),
     JObj(<<JMem("image_url", JStr("")), JMem("url", JStr("http://x/u.png")),
            JMem("src", JStr("http://x/s.png")), JMem("link", JStr("http://x/l.png"))>>),
     JObj(<<JMem("src", JStr("http://x/s.png")), JMem("link", JStr("http://x/l.png"))>>),
     JObj(<<JMem("link", JStr("http://x/l.png")), JMem("title", JStr(""))>>),
     JNull}

\* Accumulated texts at the end of a stream.
Texts == {"", "Answer"}

\* The accumulators at the end of a stream: every citations list with some
\* fixed images lists, and every images list with some fixed citations lists.
Accumulated ==
    {[citations |-> c, images |-> i] :
        c \in Seqs(CitationItems, MaxCitations), i \in {<<>>, <<JStr("u")>>}}
    \cup {[citations |-> c, images |-> i] :
        c \in {<<>>, <<JStr("https://a.com")>>}, i \in Seqs(ImageItems, MaxImages)}

\* process.env.PERPLEXITY_API_KEY: unset, or a key.
EnvKeys == {NoKey, "pplx-env"}

\* Authorization headers of /mcp requests ("" is a request without one).
AuthHeaders == {"", "Bearer pplx-a", "bearer  pplx-b", "Basic dXNlcg=="}

ToolNames == {"perplexity_search", "perplexity_search_chat"}

\* request.params.arguments
ToolArgs == {JUndefined,
             JObj(<<JMem("query", JStr("q")), JMem("content", JStr("q"))>>),
             JObj(<<JMem("query", JStr("")), JMem("content", JStr(""))>>),
             JObj(<<JMem("query", JNum("7"))>>)}

(***************************************************************************)
(* State.                                                                  *)
(***************************************************************************)
VARIABLES
    variant,        \* which of the three programs runs
    \* one tool call's processing of the upstream response body
    stream,         \* the body the upstream sends
    pos,            \* how many of its characters have been read
    status,         \* the status of the upstream response
    hasBody,        \* response.body is not null
    pc,             \* "idle" | "fetching" | "reading" | "throwing" |
                    \* "propagating" | "returned" | "failed"
    st,             \* the locals of the stream loop and their history
    toolResult,     \* the tool result returned to the MCP caller
    readerLocked,   \* the reader variant holds the body's reader lock
    splitRead,      \* history: some read ended inside a line
    upstreamCloses, \* the upstream ends the body after its last character
    calls,          \* per tool call of CallsSpec: its response, its locals and
                    \* how many upstream requests it has sent (history)
    \* API key handling
    proc,           \* "loading" | "running" | "exited"
    envKey,         \* process.env.PERPLEXITY_API_KEY
    currentApiKey,  \* PerplexityMCPServer.currentApiKey
    reqs            \* per request: position, Authorization header, the tool
                    \* call's name and arguments and what the handler did

streamVars == <<stream, status, hasBody, pos, pc, st, toolResult, readerLocked, splitRead>>
keyVars == <<proc, envKey, currentApiKey, reqs>>
vars == <<variant, stream, status, hasBody, pos, pc, st, toolResult, readerLocked, splitRead,
          upstreamCloses, calls, proc, envKey, currentApiKey, reqs>>

NoResult == [isError |-> FALSE, text |-> ""]
NoCall == [kind |-> "none", key |-> NoKey, text |-> ""]
Requests == 1..MaxRequests
NewRequest == [pc |-> "new", header |-> "", name |-> "", args |-> JUndefined,
               call |-> NoCall]

\* A tool call of CallsSpec that has not been made yet.
NewCall == [pc |-> "waiting", fetches |-> 0, status |-> 0, hasBody |-> FALSE, stream |-> "",
            st |-> InitialState("http"), reads |-> <<>>, result |-> NoResult]

(***************************************************************************)
(* Stream processing of one tool call.                                     *)
(***************************************************************************)

StreamInit ==
    /\ variant \in Variants
    /\ \E r \in Responses : stream = r.body /\ status = r.status /\ hasBody = r.hasBody
    /\ pos = 0
    /\ pc = "fetching"
    /\ st = InitialState(variant)
    /\ toolResult = NoResult
    /\ readerLocked = FALSE
    /\ splitRead = FALSE
    /\ upstreamCloses = TRUE
    /\ calls = [c \in Requests |-> NewCall]
    /\ proc = "running"
    /\ envKey = "pplx-env"
    /\ currentApiKey = NoKey
    /\ reqs = [r \in Requests |-> NewRequest]

\* The chunk of n characters that a read delivers next.
Chunk(n) == Substring(stream, pos + 1, pos + n)

\* The lengths the next chunk may have: up to MaxChunk characters, or up to
\* and including the next newline, or the rest of the stream.
ChunkLens ==
    LET rest == Len(stream) - pos
        line == IndexOfNewline(stream, pos + 1) - pos
    IN  {n \in 1..rest : n <= MaxChunk \/ n = rest \/ n = line}

\* The loop state a step leaves behind: the trace is of the step only.
AfterStep(s) == [s EXCEPT !.trace = <<>>]

\* The stream yields its next chunk and the loop body handles it.
ReadChunk ==
    /\ pc = "reading"
    /\ \E n \in ChunkLens :
        /\ st' = AfterStep(Step(variant, st, Chunk(n)))
        /\ pos' = pos + n
        /\ splitRead' = (splitRead \/ (pos + n < Len(stream) /\ CharAt(stream, pos + n) # "\n"))
    /\ UNCHANGED <<variant, calls, upstreamCloses, stream, status, hasBody, pc, toolResult, readerLocked, keyVars>>

\* A faulty loop: the end of the body is not acted on.
ReadDoneIgnored(p, body, closes) == FALSE

\* `for await` is over, `if (done) break;`: the read reports the end of the
\* body when every character was delivered and the upstream closed it.
ReadDone(p, body, closes) == p = Len(body) /\ closes

\* The upstream ends the body (the iteration is done, read() gives done): the
\* loop exits and the tool call returns its result.
EndOfStream ==
    /\ pc = "reading"
    /\ ReadDone(pos, stream, upstreamCloses)
    /\ pc' = "returned"
    /\ toolResult' = ToolResult(variant, st)
    /\ readerLocked' = FALSE
    /\ UNCHANGED <<variant, calls, upstreamCloses, stream, status, hasBody, pos, st, splitRead, keyVars>>

\* fetch rejects: no response at all.
FetchError ==
    /\ pc = "fetching"
    /\ pc' = "failed"
    /\ toolResult' = ReadErrorResult(variant, "fetch failed")
    /\ stream' = ""
    /\ status' = 0
    /\ hasBody' = FALSE
    /\ UNCHANGED <<variant, calls, upstreamCloses, pos, st, readerLocked, splitRead, keyVars>>

\* fetch resolves: a response that is not ok or has no body ends the call
\* with an error result, any other is handed to the stream loop (the reader
\* variant takes the body's reader).
Respond ==
    /\ pc = "fetching"
    /\ IF ~ResponseOk(status)
       THEN /\ pc' = "failed"
            /\ toolResult' = HttpErrorResult(variant, status, stream)
            /\ UNCHANGED readerLocked
       ELSE IF ~hasBody
       THEN /\ pc' = "failed"
            /\ toolResult' = NoBodyResult(variant)
            /\ UNCHANGED readerLocked
       ELSE /\ pc' = "reading"
            /\ readerLocked' = (variant = "reader")
            /\ UNCHANGED toolResult
    /\ UNCHANGED <<variant, calls, upstreamCloses, stream, status, hasBody, pos, st, splitRead, keyVars>>

\* Reading the stream throws (the connection drops): the error is raised
\* inside the try block of the stream loop.
ReadError ==
    /\ pc = "reading"
    /\ pc' = "throwing"
    /\ UNCHANGED <<variant, calls, upstreamCloses, stream, status, hasBody, pos, st, toolResult, readerLocked,
                   splitRead, keyVars>>

\* The error leaves the stream function: through the finally block in the
\* reader variant, through the catch that logs and rethrows in the others.
Unwind ==
    /\ pc = "throwing"
    /\ pc' = "propagating"
    /\ readerLocked' = Finally(readerLocked)
    /\ UNCHANGED <<variant, calls, upstreamCloses, stream, status, hasBody, pos, st, toolResult, splitRead, keyVars>>

\* The error reaches the catch that turns it into the tool result.
Catch ==
    /\ pc = "propagating"
    /\ pc' = "failed"
    /\ toolResult' = ReadErrorResult(variant, "socket hang up")
    /\ UNCHANGED <<variant, calls, upstreamCloses, stream, status, hasBody, pos, st, readerLocked, splitRead, keyVars>>

StreamNext ==
    \/ FetchError
    \/ Respond
    \/ ReadChunk
    \/ EndOfStream
    \/ ReadError
    \/ Unwind
    \/ Catch

Spec == StreamInit /\ [][StreamNext]_vars

\* One tool call whose upstream may keep the connection open after the last
\* character of the body: then no end of the body is ever reported.
LiveInit ==
    /\ variant \in Variants
    /\ \E r \in LiveResponses : stream = r.body /\ status = r.status /\ hasBody = r.hasBody
    /\ upstreamCloses \in BOOLEAN
    /\ pos = 0
    /\ pc = "fetching"
    /\ st = InitialState(variant)
    /\ toolResult = NoResult
    /\ readerLocked = FALSE
    /\ splitRead = FALSE
    /\ calls = [c \in Requests |-> NewCall]
    /\ proc = "running"
    /\ envKey = "pplx-env"
    /\ currentApiKey = NoKey
    /\ reqs = [r \in Requests |-> NewRequest]

\* The event loop runs every continuation that is ready: a settled fetch,
\* a chunk that has arrived, a reported end of the body, a handler of a
\* raised error.  That fetch or a read fails is never required.
LiveSpec ==
    /\ LiveInit /\ [][StreamNext]_vars
    /\ WF_vars(Respond) /\ WF_vars(ReadChunk) /\ WF_vars(EndOfStream)
    /\ WF_vars(Unwind) /\ WF_vars(Catch)

(***************************************************************************)
(* Formatting at the end of a stream (HTTP and stdio variants).            *)
(***************************************************************************)

\* The stream loop of processStreamingResponse has ended with these
\* accumulators.
FormatInit ==
    /\ variant \in {"http", "stdio"}
    /\ \E text \in Texts, acc \in Accumulated :
        st = [InitialState(variant) EXCEPT !.result = text,
                                           !.citations = JArr(acc.citations),
                                           !.images = JArr(acc.images)]
    /\ pc = "formatting"
    /\ stream = ""
    /\ status = 200
    /\ hasBody = TRUE
    /\ pos = 0
    /\ toolResult = NoResult
    /\ readerLocked = FALSE
    /\ splitRead = FALSE
    /\ upstreamCloses = TRUE
    /\ calls = [c \in Requests |-> NewCall]
    /\ proc = "running"
    /\ envKey = "pplx-env"
    /\ currentApiKey = NoKey
    /\ reqs = [r \in Requests |-> NewRequest]

\* The text is formatted and returned as the tool result.
FormatResult ==
    /\ pc = "formatting"
    /\ pc' = "returned"
    /\ toolResult' = ToolResult(variant, st)
    /\ UNCHANGED <<variant, calls, upstreamCloses, stream, status, hasBody, pos, st, readerLocked, splitRead, keyVars>>

FormatSpec == FormatInit /\ [][FormatResult]_vars

(***************************************************************************)
(* Several tool calls of one server, one after another or side by side.    *)
(* Each call of the tool handler runs streamPerplexityResponse and         *)
(* processStreamingResponse (callChatAPI and handleStreamResponse in the   *)
(* reader variant) with its own locals; the calls interleave at every      *)
(* await.                                                                  *)
(***************************************************************************)

CallsInit ==
    /\ variant \in Variants
    /\ calls = [c \in Requests |-> NewCall]
    /\ stream = ""
    /\ status = 0
    /\ hasBody = FALSE
    /\ pos = 0
    /\ pc = "idle"
    /\ st = InitialState(variant)
    /\ toolResult = NoResult
    /\ readerLocked = FALSE
    /\ splitRead = FALSE
    /\ upstreamCloses = TRUE
    /\ proc = "running"
    /\ envKey = "pplx-env"
    /\ currentApiKey = NoKey
    /\ reqs = [r \in Requests |-> NewRequest]

\* How many characters of its body call c has read.
CallPos(call) == IF call.reads = <<>> THEN 0 ELSE call.reads[Len(call.reads)]

\* The lengths the next chunk of a call may have: the first MaxChunk
\* characters of the body, or up to and including the next newline, or the
\* rest of the body.
CallChunkLens(call) ==
    LET at == CallPos(call)
        rest == Len(call.stream) - at
        line == IndexOfNewline(call.stream, at + 1) - at
    IN  {n \in 1..rest : n = rest \/ n = line \/ (n = MaxChunk /\ at = 0)}

\* A faulty catch: the call is started over and sends its request again.
FailedRetrying(call, result) == [call EXCEPT !.pc = "waiting", !.reads = <<>>]

\* The catch of streamPerplexityResponse (of the tool handler in the reader
\* variant): the error becomes the result of the call.
Failed(call, result) == [call EXCEPT !.pc = "failed", !.result = result]

\* The tool handler is called, sends the request and awaits fetch.
CallStart(c) ==
    /\ calls[c].pc = "waiting"
    /\ \E r \in CallResponses :
        calls' = [calls EXCEPT ![c] = [@ EXCEPT !.pc = "fetching",
                                                !.fetches = calls[c].fetches + 1,
                                                !.status = r.status,
                                                !.hasBody = r.hasBody, !.stream = r.body]]
    /\ UNCHANGED <<variant, upstreamCloses, streamVars, keyVars>>

\* fetch resolves for call c: an error result, or the stream function is
\* entered and creates its locals.
CallRespond(c) ==
    /\ calls[c].pc = "fetching"
    /\ calls' = [calls EXCEPT ![c] =
            IF ~ResponseOk(calls[c].status)
            THEN Failed(calls[c], HttpErrorResult(variant, calls[c].status, calls[c].stream))
            ELSE IF ~calls[c].hasBody
            THEN Failed(calls[c], NoBodyResult(variant))
            ELSE [@ EXCEPT !.pc = "reading", !.st = InitialState(variant)]]
    /\ UNCHANGED <<variant, upstreamCloses, streamVars, keyVars>>

\* Call c is given its next chunk and handles it.
CallRead(c) ==
    /\ calls[c].pc = "reading"
    /\ \E n \in CallChunkLens(calls[c]) :
        calls' = [calls EXCEPT ![c] =
            [@ EXCEPT !.st = AfterStep(Step(variant, calls[c].st,
                                Substring(calls[c].stream, CallPos(calls[c]) + 1,
                                          CallPos(calls[c]) + n))),
                      !.reads = Append(calls[c].reads, CallPos(calls[c]) + n)]]
    /\ UNCHANGED <<variant, upstreamCloses, streamVars, keyVars>>

\* The body of call c ends and the call returns its result.
CallEnd(c) ==
    /\ calls[c].pc = "reading"
    /\ ReadDone(CallPos(calls[c]), calls[c].stream, upstreamCloses)
    /\ calls' = [calls EXCEPT ![c] =
            [@ EXCEPT !.pc = "returned", !.result = ToolResult(variant, calls[c].st)]]
    /\ UNCHANGED <<variant, upstreamCloses, streamVars, keyVars>>

\* Reading the body of call c throws: the locals are gone and the catch
\* returns the error result.
CallReadError(c) ==
    /\ calls[c].pc = "reading"
    /\ calls' = [calls EXCEPT ![c] =
            Failed([calls[c] EXCEPT !.st = InitialState(variant), !.reads = <<>>],
                   ReadErrorResult(variant, "socket hang up"))]
    /\ UNCHANGED <<variant, upstreamCloses, streamVars, keyVars>>

CallsNext ==
    \/ \E c \in Requests : CallStart(c)
    \/ \E c \in Requests : CallRespond(c)
    \/ \E c \in Requests : CallRead(c)
    \/ \E c \in Requests : CallEnd(c)
    \/ \E c \in Requests : CallReadError(c)

CallsSpec == CallsInit /\ [][CallsNext]_vars

(***************************************************************************)
(* Startup and requests: which key a tool call sends upstream.             *)
(***************************************************************************)

KeyInit ==
    /\ variant \in Variants
    /\ envKey \in EnvKeys
    /\ proc = "loading"
    /\ currentApiKey = NoKey
    /\ reqs = [r \in Requests |-> NewRequest]
    /\ stream = ""
    /\ status = 0
    /\ hasBody = FALSE
    /\ pos = 0
    /\ pc = "idle"
    /\ st = InitialState(variant)
    /\ toolResult = NoResult
    /\ readerLocked = FALSE
    /\ splitRead = FALSE
    /\ upstreamCloses = TRUE
    /\ calls = [c \in Requests |-> NewCall]

\* The module is loaded and the server starts (or the process exits).
Startup ==
    /\ proc = "loading"
    /\ proc' = AfterStartup(variant, envKey)
    /\ UNCHANGED <<variant, calls, upstreamCloses, envKey, currentApiKey, reqs, streamVars>>

\* HTTP variant: a /mcp request reaches the route handler, which stores the
\* header's key and awaits transport.handleRequest.
Arrive(r) ==
    /\ proc = "running"
    /\ variant = "http"
    /\ reqs[r].pc = "new"
    /\ \E h \in AuthHeaders :
        /\ currentApiKey' = KeyAfterArrival(currentApiKey, h)
        /\ reqs' = [reqs EXCEPT ![r] = [@ EXCEPT !.pc = "handling", !.header = h]]
    /\ UNCHANGED <<variant, calls, upstreamCloses, proc, envKey, streamVars>>

\* The tool handler runs for request r: inside transport.handleRequest in the
\* HTTP variant, on a message from stdin in the other two.
ToolCall(r) ==
    /\ proc = "running"
    /\ reqs[r].pc = IF variant = "http" THEN "handling" ELSE "new"
    /\ \E name \in ToolNames, args \in ToolArgs :
        reqs' = [reqs EXCEPT ![r] = [@ EXCEPT
                    !.pc = "called",
                    !.name = name,
                    !.args = args,
                    !.call = IF variant = "reader"
                             THEN HandleToolCallReader(name, args, envKey)
                             ELSE HandleToolCall(variant, name, args, envKey, currentApiKey)]]
    /\ UNCHANGED <<variant, calls, upstreamCloses, proc, envKey, currentApiKey, streamVars>>

\* HTTP variant: transport.handleRequest settles for request r (with or
\* without a tool call, normally or by throwing) and the finally block
\* clears the key.
Finish(r) ==
    /\ proc = "running"
    /\ variant = "http"
    /\ reqs[r].pc \in {"handling", "called"}
    /\ currentApiKey' = KeyAfterRequest(currentApiKey)
    /\ reqs' = [reqs EXCEPT ![r] = [@ EXCEPT !.pc = "done"]]
    /\ UNCHANGED <<variant, calls, upstreamCloses, proc, envKey, streamVars>>

KeyNext ==
    \/ Startup
    \/ \E r \in Requests : Arrive(r)
    \/ \E r \in Requests : ToolCall(r)
    \/ \E r \in Requests : Finish(r)

KeySpec == KeyInit /\ [][KeyNext]_vars

(***************************************************************************)
(* Properties.                                                             *)
(***************************************************************************)

Buffered == variant \in {"http", "stdio"}

\* The whole body handled as one chunk.
OneChunk(v, body) == Step(v, InitialState(v), body)

\* The lines handled by the step being taken (an action-level expression).
StepTrace == Step(variant, st, Substring(stream, pos + 1, pos')).trace

IsChunkStep == pc = "reading" /\ pos' > pos

\* C1: in processStreamingResponse (HTTP and stdio variants), however the
\* body is split into chunks, the accumulated text, citations and images and
\* the formatted output at the end are those of the body arriving as a
\* single chunk.
C1_ChunkingInvariant ==
    (pc = "returned" /\ Buffered) =>
        /\ Snap(st) = Snap(OneChunk(variant, stream))
        /\ toolResult = ToolResult(variant, OneChunk(variant, stream))

\* A buffered run that returned the final transcript's full output after a
\* read had ended inside a line.
C1_Witness ==
    /\ pc = "returned" /\ Buffered /\ splitRead /\ stream = TFinal
    /\ toolResult.text =
        "AB\n\n**Sources:**\n1. u1\n2. [u2](u2)\n\n\n**Related Images:**\n1. [Image 1](i1)\n"

\* C2: in handleStreamResponse a data line split across two reads is
\* reassembled, so the result is that of the line arriving in one read.
C2_ReaderReassembles ==
    (pc = "returned" /\ variant = "reader") =>
        Snap(st) = Snap(OneChunk("reader", stream))

\* C3: once a `data: [DONE]` line has been handled, no later line changes
\* the accumulated text, citations or images.
C3_NothingAfterDone ==
    st.doneSnap # <<>> => Snap(st) = st.doneSnap[1]

\* The concatenation of the delta contents of the events from i on.
RECURSIVE ConcatDeltas(_, _)
ConcatDeltas(events, i) ==
    IF i > Len(events) THEN ""
    ELSE (IF Truthy(DeltaContent(events[i])) THEN ToStr(DeltaContent(events[i])) ELSE "")
         \o ConcatDeltas(events, i + 1)

\* C4 as amended: the accumulated text is the concatenation, in arrival
\* order, of the delta contents of the events handled so far; the events
\* "Hel", "lo, ", " world!" give "Hello,  world!", both spaces kept.
C4_TextIsConcatenation ==
    /\ st.result = ConcatDeltas(st.events, 1)
    /\ (stream = THello /\ Len(st.events) = 3) => st.result = "Hello,  world!"

C4_Witness ==
    /\ pc = "returned" /\ stream = THello /\ Len(st.events) = 3
    /\ st.result = "Hello,  world!"

\* C4 as stated: the text is the concatenation of the delta contents and
\* the events "Hel", "lo, ", " world!" give exactly "Hello, world!".
C4_AsStated ==
    /\ st.result = ConcatDeltas(st.events, 1)
    /\ (stream = THello /\ Len(st.events) = 3) => st.result = "Hello, world!"

\* The accumulators after the payloads from i on are applied to s, each as
\* the variant's line handler applies it.
RECURSIVE ApplyAll(_, _, _, _)
ApplyAll(v, s, events, i) ==
    IF i > Len(events) THEN s
    ELSE ApplyAll(v,
            IF v = "reader" THEN ApplyParsedReader(s, events[i]) ELSE ApplyParsed(s, events[i]),
            events, i + 1)

\* C5: a data line whose payload is not valid JSON never ends the loop and
\* leaves text, citations and images as they were, and the accumulators are
\* what the well-formed payloads alone produce.
C5_MalformedSkipped ==
    /\ [][IsChunkStep =>
            /\ pc' = "reading"
            /\ \A tr \in {StepTrace} : \A i \in 1..Len(tr) :
                    tr[i].path \in {"parse_failed", "threw"} =>
                        tr[i].after = tr[i].before]_vars
    /\ [](Snap(st) = Snap(ApplyAll(variant, InitialState(variant), st.events, 1)))

\* The transcript with two malformed payloads among three well-formed ones
\* was read to its end and all three well-formed ones were accumulated.
C5_Witness ==
    /\ pc = "returned" /\ stream = TBad /\ ~toolResult.isError
    /\ st.result = "AB" /\ Len(st.events) = 3

\* C6: a complete data payload left in the carry-over buffer when the stream
\* ends (no newline after it) is still processed: the result is that of the
\* same body with the newline.
C6_TrailingPayloadProcessed ==
    (pc = "returned" /\ Buffered) =>
        Snap(st) = Snap(OneChunk(variant, stream \o "\n"))

\* The array most recently carried under key by the events up to i, or
\* initial when none carried one.
RECURSIVE LastCarried(_, _, _, _)
LastCarried(events, key, i, initial) ==
    IF i = 0 THEN initial
    ELSE IF IsArray(Get(events[i], key)) THEN Get(events[i], key)
    ELSE LastCarried(events, key, i - 1, initial)

CitationsKey == IF variant = "reader" THEN "search_results" ELSE "citations"

\* C7: the stored citations (search_results in the reader variant) are the
\* array of the most recent applied payload that carried one (the initial
\* value when none did), and likewise the images: a payload that carries no
\* such array leaves the stored value as it was.
C7_LastArrayWins ==
    /\ st.citations = LastCarried(st.events, CitationsKey, Len(st.events),
                                  InitialState(variant).citations)
    /\ st.images = IF variant = "reader" THEN InitialState(variant).images
                   ELSE LastCarried(st.events, "images", Len(st.events),
                                    InitialState(variant).images)

\* The key of the bearer header of request r, NoKey without one.
HeaderKey(r) == BearerToken(reqs[r].header)

SentUpstream(r) == reqs[r].call.kind = "upstream"

\* C8: HTTP variant: a tool call of a request that carries
\* `Authorization: Bearer k`, with PERPLEXITY_API_KEY set as well, sends k
\* upstream.
C8_HeaderKeyWins ==
    \A r \in Requests :
        (variant = "http" /\ SentUpstream(r) /\ HeaderKey(r) # NoKey /\ envKey # NoKey)
            => reqs[r].call.key = HeaderKey(r)

\* C9: HTTP variant: a tool call of a request without an Authorization
\* header never sends another request's bearer key upstream: it sends the
\* environment key or fails.
C9_NoKeyLeak ==
    \A r \in Requests :
        (variant = "http" /\ SentUpstream(r) /\ reqs[r].header = "")
            => reqs[r].call.key = envKey

\* C10: a missing API key never ends the process or keeps it from starting,
\* and a tool call made when no key is available returns a tool result with
\* isError true.
C10_MissingKeyIsToolError ==
    /\ proc # "exited"
    /\ \A r \in Requests :
        StartsWith(reqs[r].call.text, "PERPLEXITY_API_KEY")
            => reqs[r].call.kind = "error_result"

\* sub occurs in s.
Contains(s, sub) ==
    \E i \in 1..(Len(s) - Len(sub) + 1) : Substring(s, i, i + Len(sub) - 1) = sub

\* The call of request r ended in an error.
CallFailed(r) == reqs[r].call.kind \in {"thrown", "error_result"}

\* C11: every error of a tool call reaches the MCP caller as a result
\* {content: [{type: "text", text: "Error: <message>"}], isError: true} and
\* never as an exception thrown out of the tool handler.
C11_ErrorsAreResults ==
    \A r \in Requests :
        CallFailed(r) =>
            /\ reqs[r].call.kind = "error_result"
            /\ StartsWith(reqs[r].call.text, "Error: ")

\* C12: when the upstream status is not 2xx the body is never handed to the
\* stream loop, and the call fails with a message that holds the status code
\* and the body text as received.
C12_NonOkStatus ==
    (pc # "fetching" /\ (status < 200 \/ status > 299) /\ status # 0) =>
        /\ pc = "failed"
        /\ toolResult.isError
        /\ Contains(toolResult.text, NumStr(status))
        /\ Contains(toolResult.text, stream)
        /\ st = InitialState(variant) /\ pos = 0 /\ ~readerLocked

\* A 401 whose body looks like a stream was reported, body and all.
C12_Witness ==
    /\ pc = "failed" /\ status = 401 /\ variant = "http"
    /\ stream = Delta("X") \o "\n\n"
    /\ toolResult.text = "Error: Perplexity API error: 401 - " \o Delta("X") \o "\n\n"

SourcesHeading == "\n\n**Sources:**\n"
ImagesHeading == "\n\n**Related Images:**\n"

\* Where sub first occurs in s, 0 when it does not.
IndexOf(s, sub) ==
    LET at == {i \in 1..(Len(s) - Len(sub) + 1) : Substring(s, i, i + Len(sub) - 1) = sub}
    IN  IF at = {} THEN 0 ELSE Least(at)

\* What follows the first occurrence of heading in out ("" without one).
After(out, heading) ==
    IF IndexOf(out, heading) = 0 THEN ""
    ELSE Slice(out, IndexOf(out, heading) - 1 + Len(heading))

\* The lines of a section's text, each without its newline.
LinesOf(text) == SubSeq(Split(text), 1, Len(Split(text)) - 1)

\* The lines under the Sources heading and under the Related Images heading.
SourceLines(out) ==
    LET rest == After(out, SourcesHeading)
        j == IndexOf(rest, ImagesHeading)
    IN  LinesOf(IF j = 0 THEN rest ELSE Substring(rest, 1, j - 1))

ImageSectionLines(out) == LinesOf(After(out, ImagesHeading))

\* The k-th smallest member of a set of numbers.
NthOf(S, k) == CHOOSE x \in S : Cardinality({y \in S : y <= x}) = k

\* The first of the fields keys of obj that is there at all / that holds a
\* value that is not empty, else default.
RECURSIVE FirstPresent(_, _, _, _)
FirstPresent(obj, keys, i, default) ==
    IF i > Len(keys) THEN default
    ELSE IF Get(obj, keys[i]).t # "undefined" THEN Get(obj, keys[i])
    ELSE FirstPresent(obj, keys, i + 1, default)

RECURSIVE FirstNonEmpty(_, _, _, _)
FirstNonEmpty(obj, keys, i, default) ==
    IF i > Len(keys) THEN default
    ELSE IF Get(obj, keys[i]).t \notin {"undefined", "null"} /\ Get(obj, keys[i]) # JStr("")
    THEN Get(obj, keys[i])
    ELSE FirstNonEmpty(obj, keys, i + 1, default)

ImageUrlKeys == <<"image_url", "url", "src", "link">>

IsObject(v) == v.t \in {"obj", "arr"}

Formatted == pc = "returned" /\ ~toolResult.isError /\ Buffered

\* The positions of the images that are strings or objects with a URL.
ImagesWithUrl ==
    {i \in 1..Len(st.images.a) :
        \/ st.images.a[i].t = "str"
        \/ /\ IsObject(st.images.a[i])
           /\ FirstNonEmpty(st.images.a[i], ImageUrlKeys, 1, JUndefined) # JUndefined}

\* C14: an image object without a URL gives no line, and the image lines
\* are numbered 1, 2, 3, ... in the order they are emitted.
C14_ImageLinesConsecutive ==
    Formatted =>
        LET lines == ImageSectionLines(toolResult.text)
        IN  /\ Len(lines) = Cardinality(ImagesWithUrl)
            /\ \A k \in 1..Len(lines) : StartsWith(lines[k], NumStr(k) \o ". ")

\* C15: every image line carries the 1-based position of its item in the
\* images array, so an item that gives no line leaves the numbers of the
\* later items as they are.
C15_ImageLinesByPosition ==
    Formatted =>
        LET lines == ImageSectionLines(toolResult.text)
        IN  /\ Len(lines) = Cardinality(ImagesWithUrl)
            /\ \A k \in 1..Len(lines) :
                StartsWith(lines[k], NumStr(NthOf(ImagesWithUrl, k)) \o ". ")

\* The second of three images has no URL: lines 1 and 3 are emitted.
C15_Witness ==
    /\ Formatted
    /\ st.images.a = <<JObj(<<JMem("image_url", JStr("http://x/i.png")), JMem("title", JStr("Cat"))>>),
                       JObj(<<JMem("title", JStr("NoURL"))>>),
                       JStr("u")>>
    /\ ImageSectionLines(toolResult.text) = <<"1. [Cat](http://x/i.png)", "3. ![Image 3](u)">>

\* The positions of the citations that are strings or objects.
Renderable ==
    {i \in 1..Len(st.citations.a) :
        st.citations.a[i].t = "str" \/ IsObject(st.citations.a[i])}

\* The line of a renderable citation has the shape the claim gives it.
CitationShape(line, citation, n) ==
    IF citation.t = "str" THEN line = NumStr(n) \o ". " \o citation.s
    ELSE /\ StartsWith(line, NumStr(n) \o ". [")
         /\ Contains(line, "](")
         /\ Substring(line, Len(line), Len(line)) = ")"

ExampleCitations == <<JStr("https://a.com"), JObj(<<JMem("url", JStr("https://b.com"))>>)>>

ExampleHolds ==
    (st.result = "Answer" /\ st.citations.a = ExampleCitations /\ st.images.a = <<>>) =>
        toolResult.text =
            "Answer\n\n**Sources:**\n1. https://a.com\n2. [https://b.com](https://b.com)\n"

\* C16 as amended: for a non-empty citations list the output is the text,
\* a blank line, the Sources heading and one line for every citation that is
\* a string or an object, numbered by its position in the array: a string as
\* `N. <string>`, an object as `N. [title](url)`; a citation that is neither
\* gives no line and keeps its number.
C16_SourcesSection ==
    (Formatted /\ Len(st.citations.a) > 0) =>
        LET lines == SourceLines(toolResult.text)
        IN  /\ StartsWith(toolResult.text, st.result \o SourcesHeading)
            /\ Len(lines) = Cardinality(Renderable)
            /\ \A k \in 1..Len(lines) :
                CitationShape(lines[k], st.citations.a[NthOf(Renderable, k)],
                              NthOf(Renderable, k))
            /\ ExampleHolds

C16_Witness ==
    /\ Formatted /\ st.result = "Answer" /\ st.citations.a = ExampleCitations
    /\ st.images.a = <<>>
    /\ SourceLines(toolResult.text) = <<"1. https://a.com", "2. [https://b.com](https://b.com)">>

\* C16 as stated: exactly one line per citation, numbered 1..n in array
\* order.
C16_AsStated ==
    (Formatted /\ Len(st.citations.a) > 0) =>
        LET lines == SourceLines(toolResult.text)
        IN  /\ StartsWith(toolResult.text, st.result \o SourcesHeading)
            /\ Len(lines) = Len(st.citations.a)
            /\ \A k \in 1..Len(lines) : StartsWith(lines[k], NumStr(k) \o ". ")
            /\ ExampleHolds

\* The line of the object citation at position n, its url and title resolved
\* by first(obj, keys, 1, default).
CitationLinkLine(citation, n, first(_, _, _, _)) ==
    LET url == first(citation, <<"url", "link">>, 1, JStr("#"))
        title == first(citation, <<"title", "name", "text">>, 1, url)
    IN  NumStr(n) \o ". [" \o ToStr(title) \o "](" \o ToStr(url) \o ")"

ObjectCitations == {i \in 1..Len(st.citations.a) : IsObject(st.citations.a[i])}

\* C17 as amended: the url of an object citation is the first of url, link
\* that is not empty, else "#"; its title is the first of title, name, text
\* that is not empty, else the resolved url.
C17_CitationFields ==
    Formatted =>
        /\ Len(SourceLines(toolResult.text)) = Cardinality(Renderable)
        /\ \A k \in 1..Cardinality(Renderable) :
            NthOf(Renderable, k) \in ObjectCitations =>
                SourceLines(toolResult.text)[k] =
                    CitationLinkLine(st.citations.a[NthOf(Renderable, k)],
                                     NthOf(Renderable, k), FirstNonEmpty)

\* An object with an empty url and an empty title is rendered with its link
\* and its text.
C17_Witness ==
    /\ Formatted
    /\ st.citations.a = <<JObj(<<JMem("url", JStr("")), JMem("link", JStr("https://l.com")),
                                 JMem("title", JStr("")), JMem("text", JStr("X"))>>)>>
    /\ SourceLines(toolResult.text) = <<"1. [X](https://l.com)">>

\* C17 as stated: the url is the first of url, link that is present, the
\* title the first of title, name, text that is present.
C17_AsStated ==
    Formatted =>
        /\ Len(SourceLines(toolResult.text)) = Cardinality(Renderable)
        /\ \A k \in 1..Cardinality(Renderable) :
            NthOf(Renderable, k) \in ObjectCitations =>
                SourceLines(toolResult.text)[k] =
                    CitationLinkLine(st.citations.a[NthOf(Renderable, k)],
                                     NthOf(Renderable, k), FirstPresent)

\* The line of the image at position n as the claim gives it.
ImageLineAs(image, n, first(_, _, _, _)) ==
    IF image.t = "str"
    THEN NumStr(n) \o ". ![Image " \o NumStr(n) \o "](" \o image.s \o ")"
    ELSE NumStr(n) \o ". ["
         \o ToStr(first(image, <<"title">>, 1, JStr("Image " \o NumStr(n))))
         \o "](" \o ToStr(first(image, ImageUrlKeys, 1, JUndefined)) \o ")"

\* C18 as amended: a string image is rendered as `N. ![Image N](url)`; an
\* object image with a URL as `N. [title](url)`, the url being the first of
\* image_url, url, src, link that is not empty and the title being title, or
\* `Image N` when title is missing or empty.
C18_ImageFields ==
    Formatted =>
        /\ Len(ImageSectionLines(toolResult.text)) = Cardinality(ImagesWithUrl)
        /\ \A k \in 1..Cardinality(ImagesWithUrl) :
            ImageSectionLines(toolResult.text)[k] =
                ImageLineAs(st.images.a[NthOf(ImagesWithUrl, k)],
                            NthOf(ImagesWithUrl, k), FirstNonEmpty)

\* An image whose image_url is empty is rendered with its url field, one
\* whose title is empty as Image N.
C18_Witness ==
    /\ Formatted
    /\ st.images.a = <<JObj(<<JMem("image_url", JStr("")), JMem("url", JStr("http://x/u.png")),
                              JMem("src", JStr("http://x/s.png")),
                              JMem("link", JStr("http://x/l.png"))>>),
                       JObj(<<JMem("link", JStr("http://x/l.png")), JMem("title", JStr(""))>>),
                       JStr("u")>>
    /\ ImageSectionLines(toolResult.text) =
        <<"1. [Image 1](http://x/u.png)", "2. [Image 2](http://x/l.png)", "3. ![Image 3](u)">>

StringOrObjectImages ==
    {i \in 1..Len(st.images.a) : st.images.a[i].t = "str" \/ IsObject(st.images.a[i])}

\* C18 as stated: every string or object image is rendered, an object with
\* the first of image_url, url, src, link that is present.
C18_AsStated ==
    Formatted =>
        /\ Len(ImageSectionLines(toolResult.text)) = Cardinality(StringOrObjectImages)
        /\ \A k \in 1..Cardinality(StringOrObjectImages) :
            ImageSectionLines(toolResult.text)[k] =
                ImageLineAs(st.images.a[NthOf(StringOrObjectImages, k)],
                            NthOf(StringOrObjectImages, k), FirstPresent)

\* C19: the output begins with the accumulated text, then comes the Sources
\* section, then the Related Images section; a section and its heading are
\* there exactly when its list is not empty, and with both lists empty the
\* output is the text.
C19_SectionOrder ==
    Formatted =>
        LET out == toolResult.text
            rest == Slice(out, Len(st.result))
            hasSources == Len(st.citations.a) > 0
            hasImages == Len(st.images.a) > 0
        IN  /\ StartsWith(out, st.result)
            /\ Contains(rest, "**Sources:**") <=> hasSources
            /\ Contains(rest, "**Related Images:**") <=> hasImages
            /\ hasSources => StartsWith(rest, SourcesHeading)
            /\ hasImages => IndexOf(rest, ImagesHeading) > 0
            /\ (hasSources /\ hasImages) =>
                    IndexOf(rest, SourcesHeading) < IndexOf(rest, ImagesHeading)
            /\ (~hasSources /\ hasImages) => StartsWith(rest, ImagesHeading)
            /\ (~hasSources /\ ~hasImages) => out = st.result

\* Text, one citation and one image: the three parts in order.
C19_Witness ==
    /\ Formatted /\ st.result = "Answer"
    /\ st.citations.a = <<JStr("https://a.com")>> /\ st.images.a = <<JStr("u")>>
    /\ toolResult.text =
        "Answer\n\n**Sources:**\n1. https://a.com\n\n\n**Related Images:**\n1. ![Image 1](u)\n"

\* A line that holds the sentinel: `data: [DONE]` as cut at the newline,
\* with the carriage return of a CRLF line end still on it or not.
IsDoneLine(line) == line \in {"data: [DONE]", "data: [DONE]\r"}

\* The paths of a line handler on which JSON.parse was called.
ParsedPaths == {"parse_failed", "threw", "applied"}

\* C20: handling a `data: [DONE]` line leaves text, citations and images as
\* they were, and the sentinel is never handed to the JSON parser.
C20_DoneLineInert ==
    [][IsChunkStep =>
        \A tr \in {StepTrace} : \A i \in 1..Len(tr) :
            IsDoneLine(tr[i].line) =>
                /\ tr[i].after = tr[i].before
                /\ tr[i].path \notin ParsedPaths]_vars

(***************************************************************************)
(* Properties of the synthesized response of the reader variant.           *)
(***************************************************************************)

\* The payload of the last line of a step's trace on which JSON.parse
\* returned, or before when it returned on none.
RECURSIVE LastParsed(_, _, _)
LastParsed(tr, i, before) ==
    IF i = 0 THEN before
    ELSE IF tr[i].path \in {"applied", "threw"} THEN tr[i].parsed
    ELSE LastParsed(tr, i - 1, before)

\* The summary fields of a payload: a field is supplied when the payload
\* holds a value for it that is not null, empty or zero.
SummaryOf(payload) ==
    [id |-> OptGet(payload, "id"),
     model |-> OptGet(payload, "model"),
     created |-> OptGet(payload, "created"),
     finish_reason |-> OptGet(OptFirst(OptGet(payload, "choices")), "finish_reason"),
     usage |-> OptGet(payload, "usage")]

SummaryFields == {"id", "model", "created", "finish_reason", "usage"}

ZeroUsage == JObj(<<JMem("prompt_tokens", JNum("0")),
                    JMem("completion_tokens", JNum("0")),
                    JMem("total_tokens", JNum("0"))>>)

\* The defaults the claim names.
SummaryDefaults == [id |-> JStr("unknown"), finish_reason |-> JStr("stop"), usage |-> ZeroUsage]

\* C24: in handleStreamResponse the payload kept for the summary is the
\* most recent one that JSON.parse returned, the synthesized response takes
\* every one of id, model, created, finish_reason and usage that this
\* payload supplies from it, and id, finish_reason and usage are "unknown",
\* "stop" and all-zero counts when no payload of the stream supplied them.
C24_SummaryFromLastPayload ==
    /\ [][(IsChunkStep /\ variant = "reader") =>
            \A tr \in {StepTrace} : st'.lastChunk = LastParsed(tr, Len(tr), st.lastChunk)]_vars
    /\ [](variant = "reader" =>
            /\ \A f \in SummaryFields :
                    Truthy(SummaryOf(st.lastChunk)[f]) =>
                        SynthResponse(st)[f] = SummaryOf(st.lastChunk)[f]
            /\ \A f \in DOMAIN SummaryDefaults :
                    (\A i \in 1..Len(st.events) : ~Truthy(SummaryOf(st.events[i])[f])) =>
                        SynthResponse(st)[f] = SummaryDefaults[f])

\* The stream with two summaries has ended: the response has the id,
\* created and finish_reason of the second payload.
C24_Witness ==
    /\ variant = "reader" /\ pc = "returned" /\ stream = TSummary /\ ~splitRead
    /\ SynthResponse(st).id = JStr("r2")
    /\ SynthResponse(st).created = JNum("6")
    /\ SynthResponse(st).finish_reason = JStr("length")
    /\ SynthResponse(st).content = "AB"

(***************************************************************************)
(* Properties of the framing: records and line ends.                       *)
(***************************************************************************)

\* The joined data of every record of lines[i..] that has two data lines or
\* more: a record ends at a blank line or at the end of the body, the values
\* of its data lines are joined with "\n".  cur and n are the joined data
\* and the number of data lines of the record being read.
RECURSIVE JoinedRecords(_, _, _, _)
JoinedRecords(lines, i, cur, n) ==
    IF i > Len(lines) THEN (IF n >= 2 THEN {cur} ELSE {})
    ELSE IF Trim(lines[i]) = ""
    THEN (IF n >= 2 THEN {cur} ELSE {}) \cup JoinedRecords(lines, i + 1, "", 0)
    ELSE IF StartsWith(lines[i], "data: ")
    THEN JoinedRecords(lines, i + 1,
            IF n = 0 THEN Slice(lines[i], 6) ELSE cur \o "\n" \o Slice(lines[i], 6),
            n + 1)
    ELSE JoinedRecords(lines, i + 1, cur, n)

\* C25: the data lines of one record are joined with "\n" and handled as
\* one payload: when the body has been read, every record of several data
\* lines whose joined data is a JSON payload has been applied as that
\* payload.
C25_DataLinesJoined ==
    pc = "returned" =>
        \A data \in JoinedRecords(Split(stream), 1, "", 0) :
            JSONParse(data).ok =>
                \E i \in 1..Len(st.events) : st.events[i] = JSONParse(data).v

\* s with every line end, "\r\n" or a bare "\r", written as "\n".
RECURSIVE ToLF(_)
ToLF(s) ==
    LET hits == {k \in 1..Len(s) : CharAt(s, k) = "\r"}
    IN  IF hits = {} THEN s
        ELSE LET k == Least(hits)
             IN  Substring(s, 1, k - 1) \o "\n"
                 \o ToLF(Substring(s, IF CharAt(s, k + 1) = "\n" THEN k + 2 ELSE k + 1,
                                   Len(s)))

\* C26: the result for a body does not depend on its line ends: text,
\* citations and images are those of the same body with LF line ends, and
\* the sentinel is recognised in the one exactly when it is in the other
\* (runs whose reads end at line ends, so that nothing but the line ends
\* differs).
C26_LineEndsEquivalent ==
    (pc = "returned" /\ ~splitRead) =>
        \A lf \in {OneChunk(variant, ToLF(stream))} :
            /\ Snap(st) = Snap(lf)
            /\ (st.doneSnap # <<>>) <=> (lf.doneSnap # <<>>)

(***************************************************************************)
(* Properties of the results of the stream loop.                           *)
(***************************************************************************)

\* C27: reader variant (the tool with the `content` argument): the text of
\* a result is the answer and nothing else (the placeholder when there is no
\* answer): no Sources section follows it, whatever search_results the
\* stream carried.
C27_AnswerOnly ==
    (variant = "reader" /\ pc = "returned" /\ ~toolResult.isError) =>
        /\ toolResult.text = IF st.result = "" THEN "No response generated" ELSE st.result
        /\ ~Contains(toolResult.text, "**Sources:**")

\* The call has read some of the body and accumulated text from it.
PartlyRead == pos > 0 /\ pos < Len(stream) /\ st.result # ""

\* C29: when reading the body fails after some deltas were accumulated, the
\* call ends with one result that has isError true and the text `Error: `
\* followed by the message of the failure; the text accumulated so far is
\* not in it, and the process keeps running.
C29_ReadErrorResult ==
    (pc = "failed" /\ PartlyRead) =>
        /\ toolResult.isError
        /\ toolResult.text = "Error: socket hang up"
        /\ proc = "running"

\* C30: once `data: [DONE]` has been received the call comes to its end
\* and returns its result, also when the upstream sends nothing more and
\* never closes the connection (a call that a read error ends counts as
\* ended).
C30_ReturnsAfterDone ==
    (st.doneSnap # <<>>) ~> (pc \in {"returned", "failed"})

(***************************************************************************)
(* Properties of the tool handler.                                         *)
(***************************************************************************)

\* The tool handler has run for request r.
Called(r) == reqs[r].call.kind # "none"

\* The one tool each variant registers (its ListTools handler).
RegisteredTool == IF variant = "reader" THEN "perplexity_search_chat" ELSE "perplexity_search"

\* The required string argument of the registered tool.
RequiredArgument == IF variant = "reader" THEN "content" ELSE "query"

\* The call of request r names the registered tool and has a string under
\* the required argument.
WellFormedCall(r) ==
    /\ reqs[r].name = RegisteredTool
    /\ Get(reqs[r].args, RequiredArgument).t = "str"

\* C22: a call that names a tool outside the registered set sends nothing
\* upstream and ends in an error that names the tool; the server keeps
\* running, and a well-formed call that is made after such a call is served:
\* it goes upstream.
C22_UnknownToolRejected ==
    /\ [](\A r \in Requests :
            (Called(r) /\ reqs[r].name # RegisteredTool) =>
                /\ reqs[r].call.kind \in {"thrown", "error_result"}
                /\ Contains(reqs[r].call.text, "Unknown tool: " \o reqs[r].name)
                /\ proc = "running")
    /\ [][\A q \in Requests :
            (/\ ~Called(q) /\ reqs'[q].call.kind # "none"
             /\ \E r \in Requests : Called(r) /\ reqs[r].name # RegisteredTool
             /\ reqs'[q].name = RegisteredTool
             /\ Get(reqs'[q].args, RequiredArgument).t = "str"
             /\ envKey # NoKey)
                => reqs'[q].call.kind = "upstream"]_vars

\* One call named an unknown tool and ended in an error, the other one went
\* upstream.
C22_Witness ==
    /\ variant = "stdio"
    /\ reqs[1].name = "perplexity_search_chat"
    /\ reqs[1].call.kind = "thrown"
    /\ reqs[1].call.text = "Unknown tool: perplexity_search_chat"
    /\ reqs[2].name = "perplexity_search" /\ reqs[2].call.kind = "upstream"

\* C23: a call of the registered tool whose required string argument is
\* missing, not a string or the empty string ends in an error and sends
\* nothing upstream.
C23_InvalidArgumentRejected ==
    \A r \in Requests :
        (Called(r) /\ reqs[r].name = RegisteredTool
         /\ ~(Get(reqs[r].args, RequiredArgument).t = "str"
              /\ Get(reqs[r].args, RequiredArgument).s # "")) =>
            reqs[r].call.kind \in {"thrown", "error_result"}

\* C28: HTTP variant, any interleaving of /mcp requests: a well-formed tool
\* call of a request with `Authorization: Bearer k` goes upstream with
\* exactly k; it does not go with another request's key or the environment
\* key, and it does not fail for want of a key.
C28_RequestKeepsItsKey ==
    \A r \in Requests :
        (variant = "http" /\ Called(r) /\ WellFormedCall(r) /\ HeaderKey(r) # NoKey) =>
            /\ reqs[r].call.kind = "upstream"
            /\ reqs[r].call.key = HeaderKey(r)

(***************************************************************************)
(* Properties of calls that run one after another or side by side.         *)
(***************************************************************************)

\* A stream state with nothing in it.
EmptyState(v) ==
    [buffer |-> "", result |-> "",
     citations |-> IF v = "reader" THEN JNull ELSE JArr(<<>>),
     images |-> JArr(<<>>), lastChunk |-> JNull,
     trace |-> <<>>, events |-> <<>>, doneSnap |-> <<>>]

\* The state after the chunks of body that end at cuts[i], cuts[i+1], ...
\* were handled one by one, starting from s.
RECURSIVE Replay(_, _, _, _, _)
Replay(v, s, body, cuts, i) ==
    IF i > Len(cuts) THEN s
    ELSE Replay(v,
            AfterStep(Step(v, s, Substring(body,
                (IF i = 1 THEN 0 ELSE cuts[i - 1]) + 1, cuts[i]))),
            body, cuts, i + 1)

\* What call c alone makes of its own response, read as c has read it.
OwnState(c) == Replay(variant, EmptyState(variant), calls[c].stream, calls[c].reads, 1)

\* C21: whatever other calls did before or do meanwhile, a call starts
\* with an empty buffer, empty text, no citations and no images, its state
\* is what its own reads of its own body produce from that, and its result
\* is the result of that state (the error of its own response when it
\* failed).
C21_FreshStatePerCall ==
    \A c \in Requests :
        /\ (calls[c].pc = "reading" /\ calls[c].reads = <<>>) =>
                /\ calls[c].st.buffer = "" /\ calls[c].st.result = ""
                /\ calls[c].st.citations \in {JNull, JArr(<<>>)}
                /\ calls[c].st.images = JArr(<<>>)
        /\ calls[c].pc \in {"reading", "returned"} => calls[c].st = OwnState(c)
        /\ calls[c].pc = "returned" => calls[c].result = ToolResult(variant, OwnState(c))
        /\ calls[c].pc = "failed" =>
                /\ calls[c].result.isError
                /\ ~ResponseOk(calls[c].status) =>
                        Contains(calls[c].result.text, calls[c].stream)

\* The first call is in the middle of its body with text "A" accumulated,
\* the second one has meanwhile returned the output of its own body.
C21_Witness ==
    /\ variant = "http"
    /\ calls[1].pc = "reading" /\ calls[1].st.result = "A"
    /\ CallPos(calls[1]) < Len(calls[1].stream)
    /\ calls[2].pc = "returned"
    /\ calls[2].result.text =
        "B\n\n**Sources:**\n1. u1\n\n\n**Related Images:**\n1. ![Image 1](i1)\n"

(***************************************************************************)
(* The end of a call.                                                      *)
(***************************************************************************)

\* The tool call has returned its result.
Ended == pc \in {"returned", "failed"}

\* C31: when the upstream ends the body it sends (or reading it fails), the
\* tool call comes to its end, whatever lines the body holds, and it returns
\* one result: none before the end, and the one it returned stays.
C31_CallEnds ==
    /\ upstreamCloses ~> Ended
    /\ [](~Ended => toolResult = NoResult)
    /\ [][Ended => (pc' = pc /\ toolResult' = toolResult)]_vars

\* The call has handled the body with the blank, malformed, other and data
\* lines to its end and returned the answer.
C31_Witness ==
    /\ upstreamCloses
    /\ stream = TLines
    /\ pos = Len(stream)
    /\ pc = "returned"
    /\ toolResult = [isError |-> FALSE, text |-> "A"]

(***************************************************************************)
(* The stored key between requests.                                        *)
(***************************************************************************)

\* Request r is inside the route handler of /mcp.
BeingHandled(r) == reqs[r].pc \in {"handling", "called"}

\* C32: HTTP variant: whenever no /mcp request is being handled,
\* currentApiKey is null, whatever the requests before were: with a Bearer
\* header, with another Authorization header or with none, with a tool call
\* that threw or without one.
C32_KeyClearedBetweenRequests ==
    (variant = "http" /\ \A r \in Requests : ~BeingHandled(r)) => currentApiKey = NoKey

\* Two requests are over: one had an Authorization header that is not a
\* Bearer header, the other a Bearer header and a tool call that threw.
C32_Witness ==
    /\ variant = "http"
    /\ reqs[1].pc = "done" /\ reqs[1].header = "Basic dXNlcg=="
    /\ reqs[2].pc = "done" /\ reqs[2].header = "Bearer pplx-a"
    /\ reqs[2].call.kind = "thrown"
    /\ currentApiKey = NoKey

(***************************************************************************)
(* The carry-over buffer of processStreamingResponse.                      *)
(***************************************************************************)

\* The text of s after its last newline (all of s when it has none).
AfterLastNewline(s) ==
    LET hits == {k \in 1..Len(s) : CharAt(s, k) = "\n"}
    IN  IF hits = {} THEN s
        ELSE Substring(s, (CHOOSE k \in hits : \A m \in hits : m <= k) + 1, Len(s))

\* The lines of a trace from the i-th on, each followed by the newline that
\* ended it.
RECURSIVE JoinLines(_, _)
JoinLines(tr, i) ==
    IF i > Len(tr) THEN "" ELSE tr[i].line \o "\n" \o JoinLines(tr, i + 1)

\* C33: HTTP and stdio variants: after each chunk the carry-over buffer has
\* no newline in it and is the text received after the most recent newline;
\* and the lines handed to the line loop while the chunk is handled are,
\* in order and each once, the text that the old buffer and the chunk hold
\* before that newline.
C33_CarryOverBuffer ==
    /\ [](Buffered =>
            /\ \A k \in 1..Len(st.buffer) : CharAt(st.buffer, k) # "\n"
            /\ st.buffer = AfterLastNewline(Substring(stream, 1, pos)))
    /\ [][(Buffered /\ IsChunkStep) =>
            \A tr \in {StepTrace} :
                JoinLines(tr, 1) \o st'.buffer = st.buffer \o Substring(stream, pos + 1, pos')]_vars

\* A read ended inside the second data line of THello: the first line has
\* been handled and the piece of the second one is in the buffer.
C33_Witness ==
    /\ Buffered
    /\ stream = THello
    /\ pc = "reading"
    /\ st.result = "Hel"
    /\ st.buffer # "" /\ StartsWith(Delta("lo, "), st.buffer)

(***************************************************************************)
(* Upstream requests of a call.                                            *)
(***************************************************************************)

\* Call c has returned its result.
CallEnded(c) == calls[c].pc \in {"returned", "failed"}

\* C34: a tool call sends at most one upstream request: exactly one once
\* it has started, also when a malformed payload was skipped; a call that
\* has ended, with an error (status not ok, no body, a failed read) or with
\* its answer, sends nothing more and keeps its result; and every call that
\* has a result has sent the request of its own.
C34_OneRequestPerCall ==
    /\ [](\A c \in Requests :
            /\ calls[c].fetches <= 1
            /\ calls[c].pc # "waiting" => calls[c].fetches = 1)
    /\ [][\A c \in Requests : CallEnded(c) => calls'[c] = calls[c]]_vars

\* One call failed on a status that is not ok, the other one skipped a
\* malformed payload and returned its answer: each has sent one request.
C34_Witness ==
    /\ calls[1].pc = "failed" /\ calls[1].status = 500 /\ calls[1].fetches = 1
    /\ calls[2].pc = "returned" /\ calls[2].fetches = 1
    /\ Contains(calls[2].stream, "data: {\n")
    /\ calls[2].result.text = "A"

(***************************************************************************)
(* Lines that are not data lines.                                          *)
(***************************************************************************)

\* The prefix of a data line.
DataPrefix == "data: "

\* C35: a line that does not start with `data: ` (a blank line, an
\* `event:` line, a comment, anything else) leaves text, citations and
\* images as they were, and handling it raises no error: the loop goes on.
C35_OtherLinesInert ==
    [][IsChunkStep =>
        /\ pc' = "reading"
        /\ \A tr \in {StepTrace} : \A i \in 1..Len(tr) :
                ~StartsWith(tr[i].line, DataPrefix) => tr[i].after = tr[i].before]_vars

====
